---------------------------- MODULE Spec2Model ----------------------------
(* A model of the scan-staging pipeline of clamav-rest: Scanner.ScanFile,  *)
(* extractZipSafe, extractFileSafe, copySingleFile, runClamAV,             *)
(* parseClamAVOutput and the part of scanHandler that turns a ScanResult   *)
(* into a response.                                                        *)
(*                                                                         *)
(* Strings are sequences of one-character strings, so that path joining,   *)
(* cleaning, prefix tests and line parsing are computed as the Go code     *)
(* computes them.                                                          *)
EXTENDS Integers, Sequences, FiniteSets, TLC

(***************************************************************************)
(* Strings                                                                 *)
(***************************************************************************)
Sep == "/"

Min(a, b) == IF a < b THEN a ELSE b

\* strings.HasPrefix
HasPrefix(s, p) == Len(p) <= Len(s) /\ SubSeq(s, 1, Len(p)) = p

\* A TrimPrefix that removes nothing.
TrimPrefixNothing(s, p) == s

\* strings.TrimPrefix
TrimPrefix(s, p) == IF HasPrefix(s, p) THEN SubSeq(s, Len(p) + 1, Len(s)) ELSE s

\* The elements of s between occurrences of the character c (strings.Split
\* with a one-character separator): always at least one element.
RECURSIVE SplitFrom(_, _, _, _)
SplitFrom(s, c, i, cur) ==
    IF i > Len(s) THEN <<cur>>
    ELSE IF s[i] = c THEN <<cur>> \o SplitFrom(s, c, i + 1, <<>>)
    ELSE SplitFrom(s, c, i + 1, Append(cur, s[i]))

Split(s, c) == SplitFrom(s, c, 1, <<>>)

\* strings.Join with a one-character separator
RECURSIVE JoinWith(_, _)
JoinWith(elems, c) ==
    IF Len(elems) = 0 THEN <<>>
    ELSE IF Len(elems) = 1 THEN elems[1]
    ELSE elems[1] \o <<c>> \o JoinWith(Tail(elems), c)

(***************************************************************************)
(* path/filepath                                                           *)
(***************************************************************************)
Dot == <<".">>
DotDot == <<".", ".">>

\* The element stack filepath.Clean keeps while it walks the path: "" and
\* "." elements are dropped, ".." removes the element before it, is dropped
\* at the root of a rooted path and is kept at the start of a relative one.
RECURSIVE CleanElems(_, _, _)
CleanElems(elems, rooted, stack) ==
    IF Len(elems) = 0 THEN stack
    ELSE LET e == Head(elems)
             rest == Tail(elems)
         IN  IF e = <<>> \/ e = Dot THEN CleanElems(rest, rooted, stack)
             ELSE IF e = DotDot
             THEN IF Len(stack) > 0 /\ stack[Len(stack)] # DotDot
                  THEN CleanElems(rest, rooted, SubSeq(stack, 1, Len(stack) - 1))
                  ELSE IF rooted THEN CleanElems(rest, rooted, stack)
                  ELSE CleanElems(rest, rooted, Append(stack, e))
             ELSE CleanElems(rest, rooted, Append(stack, e))

\* filepath.Clean
Clean(path) ==
    IF Len(path) = 0 THEN Dot
    ELSE LET rooted == path[1] = Sep
             body == JoinWith(CleanElems(Split(path, Sep), rooted, <<>>), Sep)
         IN  IF rooted THEN <<Sep>> \o body
             ELSE IF Len(body) = 0 THEN Dot ELSE body

\* filepath.Join of two elements
Join(a, b) ==
    IF Len(a) = 0 THEN (IF Len(b) = 0 THEN <<>> ELSE Clean(b))
    ELSE IF Len(b) = 0 THEN Clean(a)
    ELSE Clean(a \o <<Sep>> \o b)

\* Index of the last separator of path, 0 when it has none.
RECURSIVE LastSep(_, _)
LastSep(path, i) ==
    IF i = 0 THEN 0 ELSE IF path[i] = Sep THEN i ELSE LastSep(path, i - 1)

\* filepath.Dir
Dir(path) == Clean(SubSeq(path, 1, LastSep(path, Len(path))))


(***************************************************************************)
(* Configuration (Config, loaded once by LoadConfig and never written)     *)
(***************************************************************************)
MaxFileCount == 2
MaxExtractedSize == 3
MaxSingleFileSize == 2

(***************************************************************************)
(* Bounds of the model                                                     *)
(***************************************************************************)
\* longest archive of the pipeline specification
MaxEntries == 3
\* longest entry name of the extraction specification
NameLen == 5
\* the longest line bufio.Scanner can hold is one byte shorter (the library's
\* MaxScanTokenSize, scaled down; longer than any line of the pipeline
\* specification)
MaxScanTokenSize == 24

(***************************************************************************)
(* The filesystem: a function from cleaned absolute paths to nodes.        *)
(***************************************************************************)
DirNode == [kind |-> "dir", size |-> 0]
FileNode(n) == [kind |-> "file", size |-> n]

\* os.TempDir(), the staging directory os.MkdirTemp returns and the upload
\* that scanHandler stored with os.CreateTemp before it calls ScanFile.
TmpRoot == <<"/", "t">>
TempDir == <<"/", "t", "/", "d">>
UploadPath == <<"/", "t", "/", "u">>

\* The proper ancestors of a cleaned absolute path, the root excluded.
Ancestors(p) == { SubSeq(p, 1, i - 1) : i \in { j \in 2..Len(p) : p[j] = Sep } }

Exists(f, p) == p = <<Sep>> \/ p \in DOMAIN f
IsDirAt(f, p) == p = <<Sep>> \/ (p \in DOMAIN f /\ f[p].kind = "dir")

\* os.MkdirAll succeeds when no element of the path is a regular file.
MkdirAllOk(f, p) ==
    \A q \in Ancestors(p) \cup {p} : ~Exists(f, q) \/ IsDirAt(f, q)

\* os.MkdirAll: an error creates nothing.
MkdirAll(f, p) ==
    IF MkdirAllOk(f, p)
    THEN [q \in DOMAIN f \cup ((Ancestors(p) \cup {p}) \ {<<Sep>>}) |->
             IF q \in DOMAIN f THEN f[q] ELSE DirNode]
    ELSE f

\* os.Create succeeds when the parent is a directory and the path is not one.
CreateOk(f, p) == IsDirAt(f, Dir(p)) /\ ~IsDirAt(f, p)

\* A copy that creates the file and loses the bytes.
WriteFileEmpty(f, p, n) ==
    [q \in DOMAIN f \cup {p} |-> IF q = p THEN FileNode(0) ELSE f[q]]

\* The file at p after os.Create and a copy of n bytes into it.
WriteFile(f, p, n) ==
    [q \in DOMAIN f \cup {p} |-> IF q = p THEN FileNode(n) ELSE f[q]]

\* os.Remove of a file
Remove(f, p) == [q \in DOMAIN f \ {p} |-> f[q]]

Under(p, dir) == HasPrefix(p, dir \o <<Sep>>)

\* os.Remove in place of os.RemoveAll: removes a directory only when empty.
RemoveIfEmpty(f, dir) ==
    IF \E r \in DOMAIN f : Under(r, dir) THEN f
    ELSE [q \in DOMAIN f \ {dir} |-> f[q]]

\* os.RemoveAll: the path and everything below it.
RemoveAll(f, dir) ==
    [q \in { r \in DOMAIN f : r # dir /\ ~Under(r, dir) } |-> f[q]]

\* Bytes held by the regular files below dir.
RECURSIVE SumSizes(_, _)
SumSizes(f, ps) ==
    IF ps = {} THEN 0
    ELSE LET p == CHOOSE q \in ps : TRUE
         IN  f[p].size + SumSizes(f, ps \ {p})

StagedBytes(f, dir) == SumSizes(f, { p \in DOMAIN f : Under(p, dir) })

(***************************************************************************)
(* parseClamAVOutput                                                       *)
(***************************************************************************)
NL == "\n"
IsSpace(c) == c \in {" ", "\t", "\r", NL}

RECURSIVE LeadingSpaces(_, _)
LeadingSpaces(s, i) ==
    IF i <= Len(s) /\ IsSpace(s[i]) THEN LeadingSpaces(s, i + 1) ELSE i - 1

RECURSIVE TrailingSpaces(_, _)
TrailingSpaces(s, i) ==
    IF i >= 1 /\ IsSpace(s[i]) THEN TrailingSpaces(s, i - 1) ELSE Len(s) - i

\* strings.TrimSpace
TrimSpace(s) ==
    LET a == LeadingSpaces(s, 1)
        b == TrailingSpaces(s, Len(s))
    IN  IF a >= Len(s) THEN <<>> ELSE SubSeq(s, a + 1, Len(s) - b)

FoundWord == <<"F", "O", "U", "N", "D">>

\* The prefixes of the summary and warning lines the parser skips.
SkipPrefixes ==
    { <<"-", "-", "-">>, <<"K", "n", "o", "w", "n">>,
      <<"E", "n", "g", "i", "n", "e">>, <<"S", "c", "a", "n", "n", "e", "d">>,
      <<"D", "a", "t", "a">>, <<"T", "i", "m", "e">>,
      <<"S", "t", "a", "r", "t">>, <<"E", "n", "d">> }

\* A parser that skips no summary or warning line.
IsSkippedNever(line) == FALSE

IsSkipped(line) == \E p \in SkipPrefixes : HasPrefix(line, p)

\* What follows the colon in infectedRegex: \s+(.+)\s+FOUND$
TailMatches(r) ==
    /\ Len(r) >= 8
    /\ SubSeq(r, Len(r) - 4, Len(r)) = FoundWord
    /\ IsSpace(r[Len(r) - 5])
    /\ IsSpace(r[1])

\* The second group of infectedRegex on a matching tail: the first \s+ is
\* greedy but leaves the group one character.
TailName(r) ==
    LET b == SubSeq(r, 1, Len(r) - 6)
        k == LeadingSpaces(b, 1)
    IN  IF k = Len(b) THEN SubSeq(b, k, k) ELSE SubSeq(b, k + 1, Len(b))

\* The positions of a colon at which infectedRegex matches the line.
ColonMatches(line) ==
    { i \in 2..Len(line) :
        line[i] = ":" /\ TailMatches(SubSeq(line, i + 1, Len(line))) }

Max(S) == CHOOSE m \in S : \A n \in S : n <= m

\* A relative path that keeps the separator after the root.
RelPathRootOnly(filePath, baseDir) == TrimPrefix(filePath, baseDir)

\* parseClamAVOutput: the path without baseDir and without one separator
\* after it.
RelPath(filePath, baseDir) == TrimPrefix(TrimPrefix(filePath, baseDir), <<Sep>>)

\* One line of engine output: the Threats it adds (none or one).
ParseLine(raw, baseDir) ==
    LET line == TrimSpace(raw)
    IN  IF line = <<>> \/ IsSkipped(line) \/ ColonMatches(line) = {} THEN <<>>
        ELSE LET i == Max(ColonMatches(line))
                 filePath == SubSeq(line, 1, i - 1)
                 virusName == TailName(SubSeq(line, i + 1, Len(line)))
                 relPath == RelPath(filePath, baseDir)
             IN  << [name |-> virusName, file |-> relPath,
                     hash |-> <<>>, severity |-> "critical"] >>

RECURSIVE ParseLines(_, _)
ParseLines(lines, baseDir) ==
    IF Len(lines) = 0 THEN <<>>
    ELSE ParseLine(Head(lines), baseDir) \o ParseLines(Tail(lines), baseDir)

\* A line the bufio.Scanner cannot hold: Scan stops with ErrTooLong.
TooLong(line) == Len(line) >= MaxScanTokenSize

\* The lines scanner.Scan() yields: those before the first line too long for
\* its buffer.
RECURSIVE ScanLines(_)
ScanLines(lines) ==
    IF Len(lines) = 0 \/ TooLong(Head(lines)) THEN <<>>
    ELSE <<Head(lines)>> \o ScanLines(Tail(lines))

parseClamAVOutput(output, baseDir) ==
    ParseLines(ScanLines(Split(output, NL)), baseDir)

(***************************************************************************)
(* Inputs                                                                  *)
(***************************************************************************)
\* A zip.File: its name, whether FileInfo().IsDir(), the size its header
\* declares (UncompressedSize64) and the bytes its data decompresses to.
Entry(n, d, decl, act) == [name |-> n, isDir |-> d, declared |-> decl, actual |-> act]

\* The entries archives of the pipeline specification are made of.
EntrySet ==
    { Entry(<<"x">>, FALSE, 1, 1),
      Entry(<<"y">>, FALSE, MaxSingleFileSize, MaxSingleFileSize),
      Entry(<<"s", "/">>, TRUE, 0, 0),
      Entry(<<"s", "/", "x">>, FALSE, 1, 1),
      Entry(<<".", ".", "/", "x">>, FALSE, 1, 1),
      Entry(<<"x">>, FALSE, MaxSingleFileSize + 1, MaxSingleFileSize + 1),
      Entry(<<"y">>, FALSE, 1, MaxSingleFileSize + 1),
      Entry(<<"f", "i", "l", "e", "/">>, TRUE, 0, 0),
      Entry(<<"x", NL>>, FALSE, 1, 1),
      Entry(<<"x", NL, "y">>, FALSE, 1, 1) }

SeqsUpTo(S, n) == UNION { [1..k -> S] : k \in 0..n }

Archives == SeqsUpTo(EntrySet, MaxEntries)

\* Size in bytes of the stored upload.
UploadSizes == 1..(MaxSingleFileSize + 1)

\* header.Filename values of the multipart upload.
Filenames == { <<"a">>, <<".", ".", "/", "a">> }

\* Exit codes of an engine that ends on its own: 0 no virus found, 1
\* virus(es) found, 2 some error(s) occurred, 3 standing for any other.
ExitCodes == 0..3

\* A detection as the engine prints it: /path/to/file: VirusName FOUND
FoundLine(path, virus) == path \o <<":", " ">> \o virus \o <<" ">> \o FoundWord \o <<NL>>

\* One detection line for each path of a set, in some order.
RECURSIVE FoundLines(_)
FoundLines(ps) ==
    IF ps = {} THEN <<>>
    ELSE LET p == CHOOSE q \in ps : TRUE
         IN  FoundLine(p, <<"V">>) \o FoundLines(ps \ {p})

\* A line of the engine that reports no detection.
WarningLine == <<"W", "A", "R", "N", "I", "N", "G", ":", " ", "w", NL>>

\* What an engine run prints (stdout and stderr combined) when it reports the
\* files of infected, after a warning or not.
EngineOutput(warn, infected) ==
    (IF warn THEN WarningLine ELSE <<>>) \o FoundLines(infected)

\* The exit code goes with what the engine found: 1 exactly when it reports
\* a detection.
ExitCodeFits(code, infected) == (code = 1) <=> (infected # {})

(***************************************************************************)
(* State                                                                   *)
(***************************************************************************)
VARIABLES
    pc,           \* position of the request in scanHandler / ScanFile
    fs,           \* the filesystem
    upload,       \* the stored upload: [isZip, size]
    filename,     \* header.Filename of the upload
    rest,         \* entries of reader.File not yet visited
    nEntries,     \* number of entries of the archive (0 for a non-archive)
    fileCount,    \* extractZipSafe: fileCount; later ScanFile: fileCount
    totalSize,    \* extractZipSafe: totalSize
    extractErr,   \* outcome of extractZipSafe
    written,      \* entries for which extractZipSafe created something
    tempDirMade,  \* os.MkdirTemp succeeded (the deferred RemoveAll is armed)
    proc,         \* the engine subprocess: "none", "failed", "running", "exited"
    engineRuns,   \* number of engine subprocesses started
    ctxErr,       \* ctx.Err() of the scan context
    cutOff,       \* the deadline elapsed while the engine was running
    exitCode,     \* exit code of the engine subprocess
    output,       \* CombinedOutput of the engine subprocess
    scanDir,      \* runClamAV's targetDir, parseClamAVOutput's baseDir
    threats,      \* runClamAV's threats, then hashed by ScanFile
    err,          \* the error scanHandler ends with ("none" for nil): of one
                  \* of its own steps, or the one ScanFile returns
    result,       \* the *ScanResult ScanFile returns: <<>> for nil
    response,     \* the ScanResponse scanHandler sends: <<>> before it does
    peer          \* a second ScanFile invocation on the same Scanner, running
                  \* at the same time: [pc, dir, err, result]

vars == << pc, fs, upload, filename, rest, nEntries, fileCount, totalSize,
           extractErr, written, tempDirMade, proc, engineRuns, ctxErr, cutOff,
           exitCode, output, scanDir, threats, err, result, response, peer >>

\* The variables of the first invocation, the filesystem apart.
ownVars == << pc, upload, filename, rest, nEntries, fileCount, totalSize,
              extractErr, written, tempDirMade, proc, engineRuns, ctxErr, cutOff,
              exitCode, output, scanDir, threats, err, result, response >>

stagingVars == << rest, fileCount, totalSize, extractErr, written >>
engineVars == << proc, engineRuns, ctxErr, cutOff, exitCode, output, scanDir >>
outcomeVars == << threats, err, result, response >>

\* The filesystem when scanHandler calls ScanFile.
InitialFs(size) == (TmpRoot :> DirNode) @@ (UploadPath :> FileNode(size))

\* The second invocation before it has been called.
IdlePeer == [pc |-> "idle", dir |-> <<>>, err |-> "none", result |-> "none"]

InitCommon ==
    /\ peer = IdlePeer
    /\ fileCount = 0 /\ totalSize = 0 /\ extractErr = "pending" /\ written = 0
    /\ proc = "none" /\ engineRuns = 0 /\ ctxErr = "none" /\ cutOff = FALSE
    /\ exitCode = 0 /\ output = <<>> /\ scanDir = <<>>
    /\ threats = <<>> /\ err = "none" /\ result = <<>> /\ response = <<>>

\* A request has arrived at scanHandler; nothing of it is stored yet.
Init ==
    /\ pc = "request"
    /\ tempDirMade = FALSE
    /\ filename \in Filenames
    /\ fs = (TmpRoot :> DirNode)
    /\ upload = [isZip |-> FALSE, size |-> 0]
    /\ rest = <<>> /\ nEntries = 0
    /\ InitCommon

(***************************************************************************)
(* scanHandler up to the call of ScanFile                                  *)
(***************************************************************************)
\* sendError: the ScanResponse of a failure, sent with status 500
sendError(message) ==
    [code |-> 500, contentType |-> "application/json", status |-> "error",
     threats |-> <<>>, scannedFiles |-> 0, error |-> message]

\* http.Error(w, "Method not allowed", http.StatusMethodNotAllowed)
MethodNotAllowed ==
    [code |-> 405, contentType |-> "text/plain", status |-> "",
     threats |-> <<>>, scannedFiles |-> 0, error |-> "Method not allowed"]

\* The steps of scanHandler that can fail before ScanFile is called, named
\* by the error they fail with, and what the handler answers to each.
FrontFailures ==
    { "MethodNotAllowed", "BadForm", "NoFile", "TempFileFailed",
      "UploadCopyFailed" }

FrontResponse(e) ==
    CASE e = "MethodNotAllowed" -> MethodNotAllowed
      [] e = "BadForm" -> sendError("Invalid request format")
      [] e = "NoFile" -> sendError("No file provided in request")
      [] e = "TempFileFailed" -> sendError("Server error during file processing")
      [] e = "UploadCopyFailed" -> sendError("Server error during file processing")

\* scanHandler up to scanner.ScanFile: the method test, the multipart form,
\* the file part and its copy to a temporary file. A failing step answers
\* and returns; the deferred os.Remove takes the temporary file away again.
Receive ==
    /\ pc = "request"
    /\ \/ \E e \in FrontFailures :
             /\ err' = e
             /\ response' = << FrontResponse(e) >>
             /\ pc' = "responded"
             /\ UNCHANGED << fs, upload, rest, nEntries >>
       \/ \E sz \in UploadSizes :
             /\ fs' = WriteFile(fs, UploadPath, sz)
             /\ \/ rest' \in Archives /\ upload' = [isZip |-> TRUE, size |-> sz]
                \/ rest' = <<>> /\ upload' = [isZip |-> FALSE, size |-> sz]
             /\ nEntries' = Len(rest')
             /\ pc' = "start"
             /\ UNCHANGED << err, response >>
    /\ UNCHANGED << filename, peer, fileCount, totalSize, extractErr, written,
                    tempDirMade, engineVars, threats, result >>

(***************************************************************************)
(* Staging: extractZipSafe, extractFileSafe, copySingleFile                *)
(***************************************************************************)
\* The count test let one entry too many through.
TooManyFilesOffByOne(n) == n > MaxFileCount + 1

\* extractZipSafe: fileCount > s.config.MaxFileCount
TooManyFiles(n) == n > MaxFileCount

\* The size test let one byte too many through.
OverSingleFileLimitOffByOne(n) == n > MaxSingleFileSize + 1

\* file.UncompressedSize64, info.Size() or written > s.config.MaxSingleFileSize
OverSingleFileLimit(n) == n > MaxSingleFileSize

\* extractZipSafe: totalSize > s.config.MaxExtractedSize
OverTotalLimit(t) == t > MaxExtractedSize

\* The zip-slip test without the trailing separator.
InsideTargetNoSeparator(targetPath, targetDir) ==
    HasPrefix(targetPath, Clean(targetDir))

\* extractZipSafe without its zip-slip test.
InsideTargetAlways(targetPath, targetDir) == TRUE

\* extractZipSafe's zip-slip test of a joined target path
InsideTarget(targetPath, targetDir) ==
    HasPrefix(targetPath, Clean(targetDir) \o <<Sep>>)

\* The bytes the archive reader hands out for an entry before it ends or
\* fails: it never yields more than the header declares, and reports an error
\* when the data is shorter or longer than declared.
ZipAvailable(file) == Min(file.declared, file.actual)
ZipReadFails(file) == file.declared # file.actual

\* io.Copy from io.LimitReader(src, MaxSingleFileSize+1): the bytes written.
\* The source is read to its end (or its error) only below that limit.
LimitedCopy(avail) == Min(avail, MaxSingleFileSize + 1)

\* extractFileSafe: the filesystem and the error it leaves.
extractFileSafe(f, file, targetPath) ==
    IF ~CreateOk(f, targetPath) THEN [fs |-> f, err |-> "IOError"]
    ELSE LET n == LimitedCopy(ZipAvailable(file))
             copied == WriteFile(f, targetPath, n)
         IN  IF n < MaxSingleFileSize + 1 /\ ZipReadFails(file)
             THEN [fs |-> copied, err |-> "IOError"]
             ELSE IF OverSingleFileLimit(n)
             THEN [fs |-> Remove(copied, targetPath), err |-> "FileTooLarge"]
             ELSE [fs |-> copied, err |-> "none"]

\* A loop body that extracts the entry first and tests the limits after.
ExtractStepWriteFirst(f, file, n, total) ==
    LET targetPath == Join(TempDir, file.name)
        staged ==
            IF /\ InsideTarget(targetPath, TempDir) /\ ~file.isDir
               /\ MkdirAllOk(f, Dir(targetPath))
               /\ CreateOk(MkdirAll(f, Dir(targetPath)), targetPath)
            THEN WriteFile(MkdirAll(f, Dir(targetPath)), targetPath,
                           LimitedCopy(ZipAvailable(file)))
            ELSE f
    IN  IF TooManyFiles(n)
        THEN [err |-> "TooManyEntries", fs |-> staged, total |-> total, wrote |-> TRUE]
        ELSE IF OverSingleFileLimit(file.declared)
        THEN [err |-> "FileTooLarge", fs |-> staged, total |-> total, wrote |-> TRUE]
        ELSE IF OverTotalLimit(total + file.declared)
        THEN [err |-> "ArchiveTooLarge", fs |-> staged,
              total |-> total + file.declared, wrote |-> TRUE]
        ELSE [err |-> "none", fs |-> staged, total |-> total + file.declared,
              wrote |-> TRUE]

\* One iteration of extractZipSafe's loop over reader.File: the error it
\* returns with ("none" to go on), the filesystem and running total it
\* leaves, and whether it got as far as creating something for the entry.
ExtractStep(f, file, n, total) ==
    IF TooManyFiles(n)
    THEN [err |-> "TooManyEntries", fs |-> f, total |-> total, wrote |-> FALSE]
    ELSE IF OverSingleFileLimit(file.declared)
    THEN [err |-> "FileTooLarge", fs |-> f, total |-> total, wrote |-> FALSE]
    ELSE IF OverTotalLimit(total + file.declared)
    THEN [err |-> "ArchiveTooLarge", fs |-> f,
          total |-> total + file.declared, wrote |-> FALSE]
    ELSE LET targetPath == Join(TempDir, file.name)
             t == total + file.declared
         IN  IF ~InsideTarget(targetPath, TempDir)
             THEN [err |-> "none", fs |-> f, total |-> t, wrote |-> FALSE]
             ELSE IF file.isDir
             THEN [err |-> "none", fs |-> MkdirAll(f, targetPath),
                   total |-> t, wrote |-> TRUE]
             ELSE IF ~MkdirAllOk(f, Dir(targetPath))
             THEN [err |-> "IOError", fs |-> f, total |-> t, wrote |-> TRUE]
             ELSE LET r == extractFileSafe(MkdirAll(f, Dir(targetPath)),
                                           file, targetPath)
                  IN  [err |-> r.err, fs |-> r.fs, total |-> t, wrote |-> TRUE]

\* copySingleFile's destination: a fixed name in the staging directory
SingleFileDest(targetDir) == Join(targetDir, <<"f", "i", "l", "e">>)

\* ScanFile going on to the scan when the upload is no archive.
FallsBackNotForNonArchive(e) == e \notin {"none", "NotAnArchive"}

\* ScanFile: any error of extractZipSafe makes it stage the upload as one file
FallsBack(e) == e # "none"

\* An os.MkdirTemp that takes a name whether or not it is in use.
FreshNameUntested(f, name) == TRUE

\* os.MkdirTemp creates the directory under a name only if nothing of that
\* name exists (it tries another name otherwise).
FreshName(f, name) == name \notin DOMAIN f

\* os.MkdirTemp and the deferred os.RemoveAll; TempDir stands for the name
\* os.MkdirTemp settles on.
MkdirTemp ==
    /\ pc = "start"
    /\ \E ok \in BOOLEAN :
          IF ok
          THEN /\ FreshName(fs, TempDir)
               /\ fs' = (TempDir :> DirNode) @@ fs
               /\ tempDirMade' = TRUE
               /\ pc' = "open"
               /\ err' = err
          ELSE /\ err' = "TempDirFailed"
               /\ pc' = "ret"
               /\ UNCHANGED << fs, tempDirMade >>
    /\ UNCHANGED << upload, filename, peer, nEntries, stagingVars, engineVars,
                    threats, result, response >>

\* Where ScanFile goes when extractZipSafe returns e.
AfterExtract(e) == IF FallsBack(e) THEN "copy" ELSE "scan"

\* extractZipSafe up to the loop: zip.OpenReader
OpenArchive ==
    /\ pc = "open"
    /\ IF ~upload.isZip
       THEN extractErr' = "NotAnArchive" /\ pc' = AfterExtract("NotAnArchive")
       ELSE IF rest = <<>>
       THEN extractErr' = "none" /\ pc' = AfterExtract("none")
       ELSE extractErr' = extractErr /\ pc' = "extract"
    /\ UNCHANGED << fs, upload, filename, peer, rest, nEntries, fileCount, totalSize,
                    written, tempDirMade, engineVars, outcomeVars >>

\* A counter that leaves directory entries out.
NextCountFilesOnly(count, file) == IF file.isDir THEN count ELSE count + 1

\* extractZipSafe: fileCount++, for every entry of reader.File
NextCount(count, file) == count + 1

\* extractZipSafe: one entry of reader.File
ExtractEntry ==
    /\ pc = "extract"
    /\ LET file == Head(rest)
           n == NextCount(fileCount, file)
           r == ExtractStep(fs, file, n, totalSize)
       IN  /\ fileCount' = n
           /\ totalSize' = r.total
           /\ fs' = r.fs
           /\ written' = IF r.wrote THEN written + 1 ELSE written
           /\ IF r.err # "none"
              THEN /\ extractErr' = r.err
                   /\ rest' = <<>>
                   /\ pc' = AfterExtract(r.err)
              ELSE /\ rest' = Tail(rest)
                   /\ IF Tail(rest) = <<>>
                      THEN extractErr' = "none" /\ pc' = AfterExtract("none")
                      ELSE extractErr' = extractErr /\ pc' = pc
    /\ UNCHANGED << upload, filename, peer, nEntries, tempDirMade, engineVars,
                    outcomeVars >>

\* copySingleFile, and ScanFile's return when it fails
CopySingleFile ==
    /\ pc = "copy"
    /\ LET size == fs[UploadPath].size
           dstPath == SingleFileDest(TempDir)
           n == LimitedCopy(size)
       IN  IF OverSingleFileLimit(size) \/ ~CreateOk(fs, dstPath)
           THEN /\ err' = "StagingFailed"
                /\ pc' = "ret"
                /\ UNCHANGED << fs, fileCount >>
           ELSE IF OverSingleFileLimit(n)
           THEN /\ fs' = Remove(WriteFile(fs, dstPath, n), dstPath)
                /\ err' = "StagingFailed"
                /\ pc' = "ret"
                /\ UNCHANGED fileCount
           ELSE /\ fs' = WriteFile(fs, dstPath, n)
                /\ fileCount' = 1
                /\ pc' = "scan"
                /\ err' = err
    /\ UNCHANGED << upload, filename, peer, rest, nEntries, totalSize, extractErr,
                    written, tempDirMade, engineVars, threats, result, response >>

(***************************************************************************)
(* Scanning: runClamAV                                                     *)
(***************************************************************************)
\* A CombinedOutput that returns while the subprocess still runs.
CombinedOutputDoneEarly(p) == TRUE

\* cmd.CombinedOutput returns once the subprocess has ended (or never ran).
CombinedOutputDone(p) == p # "running"

\* runClamAV without its timeout test.
TimedOutNeverChecked(e) == FALSE

\* runClamAV: ctx.Err() == context.DeadlineExceeded
TimedOut(e) == e = "DeadlineExceeded"

\* runClamAV treating every non-zero exit code as an error.
ClassifyNonZeroAsError(p, code, parsed) ==
    IF p = "failed" \/ code # 0 THEN [threats |-> <<>>, err |-> "EngineError"]
    ELSE [threats |-> parsed, err |-> "none"]

\* runClamAV's reading of how the engine ended: p is "failed" when the
\* subprocess could not be started, code its exit code otherwise.
Classify(p, code, parsed) ==
    IF p = "failed" THEN [threats |-> <<>>, err |-> "EngineError"]
    ELSE IF code = 0 THEN [threats |-> parsed, err |-> "none"]
    ELSE IF code = 1 THEN [threats |-> parsed, err |-> "none"]
    ELSE IF code = 2 THEN [threats |-> <<>>, err |-> "EngineError"]
    ELSE [threats |-> <<>>, err |-> "EngineError"]

\* runClamAV up to cmd.CombinedOutput: the scan context is created and the
\* engine subprocess is started, or fails to start.
StartEngine ==
    /\ pc = "scan"
    /\ \E ok \in BOOLEAN :
          /\ proc' = IF ok THEN "running" ELSE "failed"
          /\ engineRuns' = IF ok THEN engineRuns + 1 ELSE engineRuns
    /\ ctxErr' = "none"
    /\ scanDir' = TempDir
    /\ pc' = "wait"
    /\ UNCHANGED << fs, upload, filename, peer, nEntries, stagingVars, tempDirMade,
                    cutOff, exitCode, output, outcomeVars >>

\* The regular files below dir: what the engine scans.
ScannedFiles(f, dir) == { p \in DOMAIN f : Under(p, dir) /\ f[p].kind = "file" }

\* The engine ends on its own: it reports a set of the staged files as
\* infected, each on a line of its own with the path as it is, and exits
\* with the code that goes with it.
EngineExit ==
    /\ pc = "wait" /\ proc = "running"
    /\ proc' = "exited"
    /\ \E code \in ExitCodes, warn \in BOOLEAN,
          infected \in SUBSET ScannedFiles(fs, scanDir) :
          /\ ExitCodeFits(code, infected)
          /\ exitCode' = code
          /\ output' = EngineOutput(warn, infected)
    /\ UNCHANGED << pc, fs, upload, filename, peer, nEntries, stagingVars,
                    tempDirMade, engineRuns, ctxErr, cutOff, scanDir,
                    outcomeVars >>

\* A scan context without a deadline.
CanExpireNever(e) == FALSE

\* context.WithTimeout: the context of the scan expires once, when
\* ScanTimeout has gone by.
CanExpire(e) == e = "none"

\* ScanTimeout elapses: the context is done, and exec.CommandContext kills
\* the subprocess if it is still running.
Deadline ==
    /\ pc = "wait" /\ CanExpire(ctxErr)
    /\ ctxErr' = "DeadlineExceeded"
    /\ IF proc = "running"
       THEN /\ proc' = "exited"
            /\ exitCode' = -1
            /\ output' = <<>>
            /\ cutOff' = TRUE
       ELSE UNCHANGED << proc, exitCode, output, cutOff >>
    /\ UNCHANGED << pc, fs, upload, filename, peer, nEntries, stagingVars,
                    tempDirMade, engineRuns, scanDir, outcomeVars >>

\* A ScanFile that calls runClamAV again when it failed.
AfterRunRetry(e) == IF e = "none" THEN "hash" ELSE "scan"

\* Where ScanFile goes when runClamAV returns the error e: on to the hash
\* loop, or out with the error.
AfterRun(e) == IF e = "none" THEN "hash" ELSE "ret"

\* runClamAV after cmd.CombinedOutput returned, and ScanFile's return when
\* runClamAV fails.
FinishRun ==
    /\ pc = "wait" /\ CombinedOutputDone(proc)
    /\ IF TimedOut(ctxErr)
       THEN /\ err' = "ScanTimeout"
            /\ threats' = <<>>
            /\ pc' = AfterRun("ScanTimeout")
       ELSE LET r == Classify(proc, exitCode, parseClamAVOutput(output, scanDir))
            IN  /\ err' = r.err
                /\ threats' = r.threats
                /\ pc' = AfterRun(r.err)
    /\ UNCHANGED << fs, upload, filename, peer, nEntries, stagingVars, tempDirMade,
                    engineVars, result, response >>

(***************************************************************************)
(* ScanFile after the scan, and scanHandler's response                     *)
(***************************************************************************)
\* computeFileHash succeeds on a regular file that exists.
HashOk(f, p) == p \in DOMAIN f /\ f[p].kind = "file"

\* The digest computeFileHash returns (contents are modelled by their size).
Digest(f, p) == <<"sha256", p, f[p].size>>

\* A hash loop that drops the threats it cannot hash.
WithHashesOrDropped(f, ts) ==
    LET HashOkAt(t) == HashOk(f, Join(TempDir, t.file))
        kept == SelectSeq(ts, HashOkAt)
    IN  [i \in DOMAIN kept |->
            [kept[i] EXCEPT !.hash = Digest(f, Join(TempDir, kept[i].file))]]

\* ScanFile: the hash loop over threats
WithHashes(f, ts) ==
    [i \in DOMAIN ts |->
        LET fullPath == Join(TempDir, ts[i].file)
        IN  IF HashOk(f, fullPath)
            THEN [ts[i] EXCEPT !.hash = Digest(f, fullPath)]
            ELSE ts[i]]

\* ScanFile: hashes and the ScanResult
Hash ==
    /\ pc = "hash"
    /\ threats' = WithHashes(fs, threats)
    /\ result' = << [threats |-> threats', scannedFiles |-> fileCount] >>
    /\ pc' = "ret"
    /\ UNCHANGED << fs, upload, filename, peer, nEntries, stagingVars, tempDirMade,
                    engineVars, err, response >>

\* ScanFile returns: the deferred os.RemoveAll(tempDir) runs.
Return ==
    /\ pc = "ret"
    /\ fs' = IF tempDirMade THEN RemoveAll(fs, TempDir) ELSE fs
    /\ pc' = "returned"
    /\ UNCHANGED << upload, filename, peer, nEntries, stagingVars, tempDirMade,
                    engineVars, outcomeVars >>

\* scanHandler: status "infected" when the result holds a threat
StatusOf(ts) == IF Len(ts) > 0 THEN "infected" ELSE "clean"

\* A handler that passes the cause of the failure on to the client.
ScanFailureMessageWithCause(e) == e

\* scanHandler: the message sent when ScanFile returned the error e
ScanFailureMessage(e) == "Scan operation failed"

\* scanHandler after scanner.ScanFile returned; the deferred os.Remove takes
\* the stored upload away.
Respond ==
    /\ pc = "returned"
    /\ response' =
          IF err # "none"
          THEN << sendError(ScanFailureMessage(err)) >>
          ELSE << [code |-> 200, contentType |-> "application/json",
                   status |-> StatusOf(result[1].threats),
                   threats |-> result[1].threats,
                   scannedFiles |-> result[1].scannedFiles,
                   error |-> ""] >>
    /\ fs' = Remove(fs, UploadPath)
    /\ pc' = "responded"
    /\ UNCHANGED << upload, filename, peer, nEntries, stagingVars, tempDirMade,
                    engineVars, threats, err, result >>

Next ==
    \/ Receive
    \/ MkdirTemp
    \/ OpenArchive
    \/ ExtractEntry
    \/ CopySingleFile
    \/ StartEngine
    \/ EngineExit
    \/ Deadline
    \/ FinishRun
    \/ Hash
    \/ Return
    \/ Respond

Spec == Init /\ [][Next]_vars

(***************************************************************************)
(* extractZipSafe on its own, over every entry name of a small alphabet    *)
(***************************************************************************)
NameChars == {"/", ".", "d", "x"}

Names == SeqsUpTo(NameChars, NameLen)

\* A name that ends in a separator is a directory entry; any other entry is
\* one when its mode bits say so.
NameEntries ==
    { Entry(n, d, 1, 1) : n \in Names, d \in BOOLEAN } \
    { Entry(n, FALSE, 1, 1) : n \in { m \in Names : Len(m) > 0 /\ m[Len(m)] = Sep } }

\* One entry of any name, alone or followed by a plain file entry.
NameArchives ==
    { <<e>> : e \in NameEntries } \cup
    { <<e, Entry(<<"x">>, FALSE, 1, 1)>> : e \in NameEntries }

StagedFs == (TempDir :> DirNode) @@ InitialFs(1)

InitExtract ==
    /\ pc = "open"
    /\ tempDirMade = TRUE
    /\ filename = <<"a">>
    /\ fs = StagedFs
    /\ upload = [isZip |-> TRUE, size |-> 1]
    /\ rest \in NameArchives
    /\ nEntries = Len(rest)
    /\ InitCommon

NextExtract == OpenArchive \/ ExtractEntry

SpecExtract == InitExtract /\ [][NextExtract]_vars

(***************************************************************************)
(* parseClamAVOutput on its own, over engine output texts and staging      *)
(* roots                                                                   *)
(***************************************************************************)
\* Staging roots: a directory, a directory in it, and the first written
\* with a separator at its end.
Roots == { <<"/", "r">>, <<"/", "r", "/", "d">>, <<"/", "r", "/">> }

\* The pieces lines are put together from: what stands before the colon,
\* between the colon and the name, the name, between the name and the last
\* word, the last word, and around the line.
LinePaths ==
    { <<"/", "r", "/", "x">>, <<"/", "r", "/", "/", "x">>,
      <<"/", "r", "/", "d", "/", "x">>, <<"/", "r", "x">>, <<"/", "o">>,
      <<"D", "a", "t", "a", "/", "x">>, <<"a", ":", " ", "b">>, <<>> }
LineGaps == { <<" ">>, <<"\t", " ">>, <<>> }
LineNames == { <<"V">>, <<"V", " ", "W">>, <<>> }
LineEnds == { FoundWord, <<"F", "O", "U", "N", "D", "!">>, <<"O", "K">> }
LineMargins == { <<>>, <<" ">>, <<"\r">> }

\* One-line texts: every combination of the pieces.
PieceLines ==
    { m \o p \o <<":">> \o g \o n \o h \o e \o m :
        p \in LinePaths, g \in LineGaps, n \in LineNames, h \in LineGaps,
        e \in LineEnds, m \in LineMargins }

\* A line too long for the scanner's buffer.
LongLine == [i \in 1..MaxScanTokenSize |-> "a"]

\* The lines longer texts are made of: detections (one of them under a
\* double separator, one with a banner word for a path), a line that is no
\* detection, a banner, a blank line and a line too long.
TextLines ==
    { <<"/", "r", "/", "x", ":", " ", "V", " ">> \o FoundWord,
      <<"/", "r", "/", "d", "/", "x", ":", " ", "W", " ">> \o FoundWord,
      <<"/", "r", "/", "/", "x", ":", " ", "V", " ">> \o FoundWord,
      <<"T", "i", "m", "e", ":", " ", "V", " ">> \o FoundWord,
      <<"/", "r", "/", "x", ":", " ", "O", "K">>,
      <<"-", "-", "-", "-">>,
      <<>>,
      LongLine }

\* longest text, in lines
MaxLines == 3

\* Engine output texts.
Texts ==
    PieceLines \cup { JoinWith(ls, NL) : ls \in SeqsUpTo(TextLines, MaxLines) }

InitParse ==
    /\ pc = "parse"
    /\ fs = InitialFs(1)
    /\ upload = [isZip |-> FALSE, size |-> 1]
    /\ filename = <<"a">>
    /\ rest = <<>> /\ nEntries = 0 /\ tempDirMade = FALSE
    /\ fileCount = 0 /\ totalSize = 0 /\ extractErr = "pending" /\ written = 0
    /\ proc = "exited" /\ engineRuns = 1 /\ ctxErr = "none" /\ cutOff = FALSE
    /\ exitCode = 1
    /\ output \in Texts
    /\ scanDir \in Roots
    /\ threats = <<>> /\ err = "none" /\ result = <<>> /\ response = <<>>
    /\ peer = IdlePeer

\* runClamAV: threats := parseClamAVOutput(outputStr, targetDir)
ParseOutput ==
    /\ pc = "parse"
    /\ threats' = parseClamAVOutput(output, scanDir)
    /\ pc' = "parsed"
    /\ UNCHANGED << fs, upload, filename, peer, nEntries, stagingVars, tempDirMade,
                    engineVars, err, result, response >>

NextParse == ParseOutput

SpecParse == InitParse /\ [][NextParse]_vars

(***************************************************************************)
(* Two ScanFile invocations at the same time on one Scanner: the first as  *)
(* above, the second scanning a non-archive upload, step by step between   *)
(* the steps of the first.                                                 *)
(***************************************************************************)
\* The names os.MkdirTemp chooses from.
StagingNames == { TempDir, <<"/", "t", "/", "e">> }

\* ScanFile of the second invocation: os.MkdirTemp
PeerMkdirTemp ==
    /\ peer.pc = "idle"
    /\ \E d \in StagingNames :
          /\ FreshName(fs, d)
          /\ fs' = (d :> DirNode) @@ fs
          /\ peer' = [peer EXCEPT !.pc = "staging", !.dir = d]
    /\ UNCHANGED ownVars

\* ScanFile of the second invocation: extractZipSafe fails on its upload and
\* copySingleFile stages it, or refuses it for its size.
PeerStage ==
    /\ peer.pc = "staging"
    /\ \E ok \in BOOLEAN :
          IF ok
          THEN /\ fs' = WriteFile(fs, SingleFileDest(peer.dir), 1)
               /\ peer' = [peer EXCEPT !.pc = "scanning"]
          ELSE /\ fs' = fs
               /\ peer' = [peer EXCEPT !.pc = "returning", !.err = "StagingFailed"]
    /\ UNCHANGED ownVars

\* ScanFile of the second invocation: runClamAV on its staging directory and
\* the hash loop, which reads the file it staged.
PeerScan ==
    /\ peer.pc = "scanning"
    /\ \E e \in {"none", "EngineError", "ScanTimeout"} :
          IF e = "none"
          THEN \E r \in {"clean", "infected"} :
                  peer' = [peer EXCEPT !.pc = "returning", !.result = r]
          ELSE peer' = [peer EXCEPT !.pc = "returning", !.err = e]
    /\ UNCHANGED << fs, ownVars >>

\* ScanFile of the second invocation returns: the deferred os.RemoveAll
PeerReturn ==
    /\ peer.pc = "returning"
    /\ fs' = RemoveAll(fs, peer.dir)
    /\ peer' = [peer EXCEPT !.pc = "done"]
    /\ UNCHANGED ownVars

\* longest archive of the first invocation
MaxConcEntries == 1

\* The entries of its archives: plain ones, one that escapes the staging
\* directory, one too large, and two whose names break the engine's line,
\* one of them before "../q". An uploader fixes the names before
\* os.MkdirTemp draws its random ones, so that no entry name holds a staging
\* name.
ConcEntrySet ==
    { Entry(<<"x">>, FALSE, 1, 1),
      Entry(<<"s", "/", "x">>, FALSE, 1, 1),
      Entry(<<".", ".", "/", "x">>, FALSE, 1, 1),
      Entry(<<"x">>, FALSE, MaxSingleFileSize + 1, MaxSingleFileSize + 1),
      Entry(<<"x", NL, "y">>, FALSE, 1, 1),
      Entry(<<"x", NL, ".", ".", "/", "q">>, FALSE, 1, 1) }

\* Sizes of its stored upload: one the fallback copy takes, one it refuses.
ConcUploadSizes == { 1, MaxSingleFileSize + 1 }

InitConc ==
    /\ pc = "start"
    /\ tempDirMade = FALSE
    /\ filename = <<"a">>
    /\ \E sz \in ConcUploadSizes :
          /\ fs = InitialFs(sz)
          /\ \/ /\ rest \in SeqsUpTo(ConcEntrySet, MaxConcEntries)
                /\ upload = [isZip |-> TRUE, size |-> sz]
             \/ /\ rest = <<>>
                /\ upload = [isZip |-> FALSE, size |-> sz]
    /\ nEntries = Len(rest)
    /\ InitCommon

NextConc ==
    \/ MkdirTemp
    \/ OpenArchive
    \/ ExtractEntry
    \/ CopySingleFile
    \/ StartEngine
    \/ EngineExit
    \/ Deadline
    \/ FinishRun
    \/ Hash
    \/ Return
    \/ PeerMkdirTemp
    \/ PeerStage
    \/ PeerScan
    \/ PeerReturn

SpecConc == InitConc /\ [][NextConc]_vars

(***************************************************************************)
(* One ScanFile invocation under fair scheduling: every step of ScanFile   *)
(* that can be taken is taken in the end, and the timer of the scan        *)
(* context fires; nothing makes the engine end on its own.                 *)
(***************************************************************************)
NextLive ==
    \/ MkdirTemp
    \/ OpenArchive
    \/ ExtractEntry
    \/ CopySingleFile
    \/ StartEngine
    \/ EngineExit
    \/ Deadline
    \/ FinishRun
    \/ Hash
    \/ Return

\* Weak fairness of a step that is enabled exactly when at holds and that
\* always changes the state: WF_vars(A) with ENABLED <<A>>_vars written out.
\* extractZipSafe's loop body, copySingleFile and the rest of runClamAV are
\* such steps: each moves pc or counts an entry.
ExtractEntryFair == []<>(pc # "extract") \/ []<><<ExtractEntry>>_vars
CopySingleFileFair == []<>(pc # "copy") \/ []<><<CopySingleFile>>_vars
FinishRunFair ==
    []<>(~(pc = "wait" /\ CombinedOutputDone(proc))) \/ []<><<FinishRun>>_vars

\* The goroutine that runs ScanFile is scheduled, and time goes by: the
\* timer of the scan context fires. Nothing is asked of the engine.
Fairness ==
    /\ WF_vars(MkdirTemp)
    /\ WF_vars(OpenArchive)
    /\ ExtractEntryFair
    /\ CopySingleFileFair
    /\ WF_vars(StartEngine)
    /\ WF_vars(Deadline)
    /\ FinishRunFair
    /\ WF_vars(Hash)
    /\ WF_vars(Return)

SpecLive == InitConc /\ [][NextLive]_vars /\ Fairness

(***************************************************************************)
(* Properties                                                              *)
(***************************************************************************)
Returned == pc \in {"returned", "responded"}

PolicyViolations == {"TooManyEntries", "FileTooLarge", "ArchiveTooLarge"}

StagedPaths == { p \in DOMAIN fs : Under(p, TempDir) }

\* A path is strictly inside dir when, normalized, its elements extend the
\* elements of dir.
StrictlyInside(p, dir) ==
    LET a == Split(Clean(p), Sep)
        b == Split(Clean(dir), Sep)
    IN  Len(a) > Len(b) /\ SubSeq(a, 1, Len(b)) = b

\* C1: once ScanFile has returned, the staging directory it created and
\* everything below it are gone, whichever way it returned.
C1_StagingDirRemoved ==
    Returned => \A p \in DOMAIN fs : p # TempDir /\ ~Under(p, TempDir)

\* A scan that staged entries, timed out and returned.
C1_Witness ==
    /\ pc = "returned" /\ tempDirMade /\ written > 0
    /\ err = "ScanTimeout" /\ TempDir \notin DOMAIN fs

\* C2: after a policy violation of the extraction the scan is rejected: the
\* engine is not run, no ScanResult is produced and ScanFile returns an error.
C2_PolicyViolationRejects ==
    extractErr \in PolicyViolations =>
        /\ engineRuns = 0
        /\ proc = "none"
        /\ result = <<>>
        /\ pc # "scan"
        /\ (Returned => err # "none")

\* C3: whatever extractZipSafe creates is strictly inside the target
\* directory; the target directory itself and everything outside it stay as
\* they were.
C3_NothingOutsideTarget ==
    \A p \in DOMAIN fs :
        \/ p \in DOMAIN StagedFs /\ fs[p] = StagedFs[p]
        \/ p \notin DOMAIN StagedFs /\ StrictlyInside(p, TempDir)

\* An archive of two entries of which one was skipped and one was written.
C3_Witness ==
    /\ pc = "scan" /\ extractErr = "none"
    /\ fileCount = 2 /\ written = 1 /\ StagedPaths # {}

\* C4: the bytes held under the staging directory never exceed
\* MaxExtractedSize.
C4_StagedBytesWithinTotal == StagedBytes(fs, TempDir) <= MaxExtractedSize

\* C5: no regular file under the staging directory holds more than
\* MaxSingleFileSize bytes.
C5_NoFileOverSingleLimit ==
    \A p \in StagedPaths : fs[p].size <= MaxSingleFileSize

\* An archive was cut short with a file of exactly the limit staged, and the
\* upload, larger than the limit, was refused by copySingleFile, which left
\* no destination file.
C5_Witness ==
    /\ pc = "ret" /\ err = "StagingFailed"
    /\ upload.size > MaxSingleFileSize
    /\ <<"/", "t", "/", "d", "/", "f", "i", "l", "e">> \notin DOMAIN fs
    /\ \E p \in StagedPaths : fs[p].size = MaxSingleFileSize

\* C6: extractZipSafe passes at most MaxFileCount entries: its counter goes
\* beyond MaxFileCount only in the step that fails with TooManyEntries, by
\* when at most MaxFileCount entries have been written, and an archive with
\* more entries is never extracted successfully.
C6_EntryCountBounded ==
    /\ written <= MaxFileCount
    /\ fileCount <= MaxFileCount + 1
    /\ (fileCount > MaxFileCount => extractErr = "TooManyEntries")
    /\ (extractErr = "TooManyEntries" /\ pc = "copy"
            => fileCount = MaxFileCount + 1)
    /\ (nEntries > MaxFileCount => extractErr # "none")

\* Extraction failed on the entry after the last allowed one, with
\* MaxFileCount entries written.
C6_Witness ==
    /\ pc = "copy" /\ extractErr = "TooManyEntries"
    /\ written = MaxFileCount /\ nEntries > MaxFileCount

\* The engine's termination has been classified by runClamAV.
Classified ==
    /\ pc \in {"hash", "ret", "returned", "responded"}
    /\ proc \in {"exited", "failed"}
    /\ ctxErr = "none"

\* Threats without their hashes.
Unhashed(ts) == [i \in DOMAIN ts |-> [ts[i] EXCEPT !.hash = <<>>]]

C8_TimeoutCancelsEngine ==
    /\ (Returned => proc # "running")
    /\ (cutOff => proc = "exited")
    /\ (cutOff /\ pc \in {"ret", "returned", "responded"}
            => err = "ScanTimeout" /\ result = <<>>)

\* A scan whose engine was cut off has returned.
C8_Witness ==
    /\ pc = "returned" /\ cutOff /\ err = "ScanTimeout" /\ engineRuns = 1

\* C9: the status sent agrees with the engine's exit code: infected with at
\* least one threat on exit code 1, clean with no threat on exit code 0.
C9_StatusAgreesWithExitCode ==
    (pc = "responded" /\ proc = "exited" /\ ctxErr = "none") =>
        /\ (exitCode = 1 =>
                /\ response[1].status = "infected"
                /\ Len(response[1].threats) >= 1)
        /\ (exitCode = 0 =>
                /\ response[1].status = "clean"
                /\ response[1].threats = <<>>)

\* C10: for an upload that is no archive, extraction fails with NotAnArchive,
\* the only thing staged is the copy of the upload named "file", whatever
\* header.Filename was, and a result counts one file.
C10_NonArchiveFallback ==
    ~upload.isZip =>
        /\ (pc \notin {"start", "open"} /\ tempDirMade
                => extractErr = "NotAnArchive")
        /\ StagedPaths \subseteq {<<"/", "t", "/", "d", "/", "f", "i", "l", "e">>}
        /\ (pc \in {"scan", "wait", "hash"} =>
                /\ StagedPaths # {}
                /\ \A p \in StagedPaths : fs[p] = FileNode(upload.size))
        /\ (result # <<>> => result[1].scannedFiles = 1)
        /\ (pc = "responded" /\ err = "none"
                => response[1].scannedFiles = 1)

\* A non-archive uploaded under a name with a parent element was scanned and
\* reported with one file.
C10_Witness ==
    /\ ~upload.isZip /\ filename = <<".", ".", "/", "a">>
    /\ pc = "responded" /\ extractErr = "NotAnArchive"
    /\ response[1].status = "clean" /\ response[1].scannedFiles = 1

\* The entry extractZipSafe visits next is a file entry that its loop hands
\* to extractFileSafe: it passes the count test, the two header tests and
\* the path test.
NextEntryIsExtracted ==
    /\ pc = "extract"
    /\ ~Head(rest).isDir
    /\ ~TooManyFiles(fileCount + 1)
    /\ ~OverSingleFileLimit(Head(rest).declared)
    /\ ~OverTotalLimit(totalSize + Head(rest).declared)
    /\ InsideTarget(Join(TempDir, Head(rest).name), TempDir)

\* C11: when the data of an entry handed to extractFileSafe holds more bytes
\* than MaxSingleFileSize, whatever its header declares, the extraction
\* fails with FileTooLarge and no output file is left for the entry.
C11_OversizedDataFailsTooLarge ==
    [][ (NextEntryIsExtracted /\ Head(rest).actual > MaxSingleFileSize)
            => /\ extractErr' = "FileTooLarge"
               /\ Join(TempDir, Head(rest).name) \notin DOMAIN fs' ]_vars

\* The entry extractZipSafe visits next has a name that leads out of the
\* staging directory, or to the staging directory itself.
NextEntryEscapes ==
    /\ pc = "extract"
    /\ ~StrictlyInside(Join(TempDir, Head(rest).name), TempDir)

\* The entry extractZipSafe visits next passes the count test and the two
\* header tests, which come before the path test.
NextEntryWithinLimits ==
    /\ pc = "extract"
    /\ ~TooManyFiles(fileCount + 1)
    /\ ~OverSingleFileLimit(Head(rest).declared)
    /\ ~OverTotalLimit(totalSize + Head(rest).declared)

\* What skipping the entry visited next comes to: nothing is created, no
\* error is raised and the loop goes on with the entries after it, or ends
\* successfully when there is none.
NextEntrySkipped ==
    /\ fs' = fs
    /\ written' = written
    /\ rest' = Tail(rest)
    /\ extractErr' = (IF Tail(rest) = <<>> THEN "none" ELSE "pending")

\* C12 as stated: an entry whose cleaned path is not below the target
\* directory is skipped, whatever the archive: nothing is written for it,
\* it raises no error and the extraction goes on.
C12_EscapingEntrySkipped ==
    [][ NextEntryEscapes => NextEntrySkipped ]_vars

\* C12, amended: an entry whose cleaned path is not below the target
\* directory is skipped when it passes the count test and the header tests,
\* and it counts for both: the entry counter goes up by one and the running
\* total by its declared size.
C12_EscapingEntrySkippedWithinLimits ==
    [][ (NextEntryEscapes /\ NextEntryWithinLimits)
            => /\ NextEntrySkipped
               /\ fileCount' = fileCount + 1
               /\ totalSize' = totalSize + Head(rest).declared ]_vars

\* An archive of two entries was extracted with success: one entry was
\* skipped, the other was written, and the scan goes on.
C12_Witness ==
    /\ pc = "wait" /\ extractErr = "none" /\ nEntries = 2
    /\ fileCount = 2 /\ written = 1 /\ totalSize = 2
    /\ <<"/", "t", "/", "d", "/", "x">> \in DOMAIN fs

\* The path the entry visited next is extracted to.
NextTarget == Join(TempDir, Head(rest).name)

\* The regular files staged under the staging directory.
StagedFiles == { p \in StagedPaths : fs[p].kind = "file" }

\* What extracting the entry visited next as declared comes to: no error is
\* raised and the loop goes on, or ends successfully; a file entry adds one
\* file with the bytes of the entry, a directory entry adds no file, and the
\* files staged before stay as they are.
NextEntryStagedAsDeclared ==
    /\ rest' = Tail(rest)
    /\ extractErr' = (IF Tail(rest) = <<>> THEN "none" ELSE "pending")
    /\ \A p \in StagedFiles : p \in DOMAIN fs' /\ fs'[p] = fs[p]
    /\ IF Head(rest).isDir
       THEN { p \in DOMAIN fs' : fs'[p].kind = "file" /\ Under(p, TempDir) }
                = StagedFiles
       ELSE /\ NextTarget \notin StagedFiles
            /\ { p \in DOMAIN fs' : fs'[p].kind = "file" /\ Under(p, TempDir) }
                   = StagedFiles \cup {NextTarget}
            /\ fs'[NextTarget] = FileNode(Head(rest).actual)

\* The entry visited next has data of the size its header declares and leads
\* strictly inside the staging directory; if it is a file entry, to a path
\* no earlier entry led to and that needs no staged file as a directory.
NextEntryWellFormed ==
    /\ pc = "extract"
    /\ Head(rest).actual = Head(rest).declared
    /\ StrictlyInside(NextTarget, TempDir)
    /\ ~Head(rest).isDir =>
          /\ NextTarget \notin DOMAIN fs
          /\ Ancestors(NextTarget) \cap StagedFiles = {}

TrimmedLines(text) ==
    LET ls == Split(text, NL) IN [i \in DOMAIN ls |-> TrimSpace(ls[i])]

\* The lines of a text up to the first one of MaxScanTokenSize bytes or
\* more, each without the white space around it.
TrimmedLinesInReach(text) ==
    LET ls == Split(text, NL)
        long == { i \in DOMAIN ls : Len(ls[i]) >= MaxScanTokenSize }
        n == IF long = {} THEN Len(ls)
             ELSE (CHOOSE i \in long : \A j \in long : i <= j) - 1
    IN  [i \in 1..n |-> TrimSpace(ls[i])]

\* A line of the form <path>: <name> FOUND, and one that begins with a word
\* of the summary and warning lines.
IsDetection(l) ==
    \E i \in 2..(Len(l) - 8) :
        /\ l[i] = ":" /\ IsSpace(l[i + 1])
        /\ IsSpace(l[Len(l) - 5]) /\ SubSeq(l, Len(l) - 4, Len(l)) = FoundWord
IsBanner(l) == \E p \in SkipPrefixes : HasPrefix(l, p)
IsDetectionNoBanner(l) == IsDetection(l) /\ ~IsBanner(l)

\* The Threat t is what the line l of the form <path>: <name> FOUND stands
\* for under a staging root: its file is the path without the root and the
\* separator after it, its name is what stands between the white space after
\* the colon and the white space before FOUND.
ThreatOfLine(t, l, root) ==
    \E i \in 2..(Len(l) - 8) :
    \E a \in (i + 2)..(Len(l) - 6) :
    \E b \in a..(Len(l) - 6) :
        /\ l[i] = ":"
        /\ \A k \in (i + 1)..(a - 1) : IsSpace(l[k])
        /\ \A k \in (b + 1)..(Len(l) - 5) : IsSpace(l[k])
        /\ SubSeq(l, Len(l) - 4, Len(l)) = FoundWord
        /\ t.name = SubSeq(l, a, b)
        /\ t.file = TrimPrefix(TrimPrefix(SubSeq(l, 1, i - 1), root), <<Sep>>)
        /\ t.severity = "critical"

\* Threat for line, in the order of the lines.
ThreatsOfLines(ts, ls, root) ==
    /\ Len(ts) = Len(ls)
    /\ \A k \in DOMAIN ts : ThreatOfLine(ts[k], ls[k], root)

\* C14 as stated: parseClamAVOutput returns one Threat for every line of the
\* form <path>: <name> FOUND, in the order of the lines and with repetitions
\* kept, and nothing for any other line.
C14_ThreatPerDetectionLine ==
    pc = "parsed" =>
        ThreatsOfLines(threats, SelectSeq(TrimmedLines(output), IsDetection),
                       scanDir)

\* C14, amended: the same for the lines of that form that do not begin with
\* a word of the summary and warning lines and that stand before the first
\* line too long for the scanner.
C14_ThreatPerDetectionLineInReach ==
    pc = "parsed" =>
        ThreatsOfLines(threats,
                       SelectSeq(TrimmedLinesInReach(output), IsDetectionNoBanner),
                       scanDir)

\* A text of three detections, the later two alike, was parsed: the names
\* come back in the order of the lines, not sorted and not deduplicated.
C14_Witness ==
    /\ pc = "parsed" /\ Len(threats) = 3
    /\ threats[1].name = <<"W">> /\ threats[2].name = <<"V">>
    /\ threats[2] = threats[3]

\* An absolute path begins with the separator.
IsAbs(p) == Len(p) > 0 /\ p[1] = Sep

\* What stands before the colon of a line of the form <path>: <name> FOUND,
\* the last such colon when there are several.
PathOfLine(l) ==
    LET colons == { i \in 2..(Len(l) - 8) :
                      /\ l[i] = ":" /\ IsSpace(l[i + 1])
                      /\ IsSpace(l[Len(l) - 5])
                      /\ SubSeq(l, Len(l) - 4, Len(l)) = FoundWord }
    IN  SubSeq(l, 1, (CHOOSE i \in colons : \A j \in colons : j <= i) - 1)

\* The lines of the parsed text that stand for the threats, in order.
ThreatLines == SelectSeq(TrimmedLinesInReach(output), IsDetectionNoBanner)

C16_HashFailureNotFatal ==
    (pc = "ret" /\ result # <<>>) =>
        /\ err = "none"
        /\ Unhashed(result[1].threats) = parseClamAVOutput(output, scanDir)
        /\ \A k \in DOMAIN result[1].threats :
              LET t == result[1].threats[k]
                  p == Join(TempDir, t.file)
              IN  IF p \in DOMAIN fs /\ fs[p].kind = "file"
                  THEN t.hash = <<"sha256", p, fs[p].size>>
                  ELSE t.hash = <<>>

\* ScanFile is about to return a ScanResult of two threats: one with its
\* hash, one whose file is not in the staging directory with none.
C16_Witness ==
    /\ pc = "ret" /\ err = "none" /\ result # <<>>
    /\ Len(result[1].threats) = 2
    /\ \E j, k \in 1..2 :
          /\ result[1].threats[j].hash = <<>>
          /\ Join(TempDir, result[1].threats[j].file) \notin DOMAIN fs
          /\ result[1].threats[k].hash # <<>>

\* The step of scanHandler at which a request failed, by the error it failed
\* with: the method test, the multipart form, the file part, the storing of
\* the upload, or the scan.
FailedStage(e) ==
    CASE e = "MethodNotAllowed" -> "method"
      [] e = "BadForm" -> "form"
      [] e = "NoFile" -> "file"
      [] e \in {"TempFileFailed", "UploadCopyFailed"} -> "store"
      [] OTHER -> "scan"

\* The fixed answers to a failed request, one for each step: the HTTP status
\* and the generic message.
GenericAnswer(stage) ==
    LET answer(c, t, s, m) ==
            [code |-> c, contentType |-> t, status |-> s, threats |-> <<>>,
             scannedFiles |-> 0, error |-> m]
        json == "application/json"
    IN  CASE stage = "method" -> answer(405, "text/plain", "", "Method not allowed")
          [] stage = "form" -> answer(500, json, "error", "Invalid request format")
          [] stage = "file" -> answer(500, json, "error", "No file provided in request")
          [] stage = "store" ->
                answer(500, json, "error", "Server error during file processing")
          [] stage = "scan" -> answer(500, json, "error", "Scan operation failed")

\* C17: the answer to a failed request is the fixed answer of the step that
\* failed, whatever the error was and whatever the engine printed, so that
\* two requests failing at the same step get the same body and status code.
C17_ErrorAnswerFixedByStage ==
    (pc = "responded" /\ err # "none")
        => response = << GenericAnswer(FailedStage(err)) >>

\* The engine ended with an error after printing a warning, and the request
\* was answered.
C17_Witness ==
    /\ pc = "responded" /\ err = "EngineError"
    /\ exitCode = 2 /\ output # <<>>
    /\ response[1].code = 500

\* An invocation holds a staging directory from os.MkdirTemp to its return.
OwnAlive == tempDirMade /\ pc \notin {"returned", "responded"}
PeerAlive == peer.pc \in {"staging", "scanning", "returning"}

\* What a filesystem holds at and below a directory.
TreeAt(f, dir) ==
    [p \in { q \in DOMAIN f : q = dir \/ Under(q, dir) } |-> f[p]]

\* The two invocations hold different staging directories, neither inside
\* the other.
OwnStagingDirs ==
    (OwnAlive /\ PeerAlive) =>
        /\ peer.dir # TempDir
        /\ ~Under(peer.dir, TempDir) /\ ~Under(TempDir, peer.dir)

\* The first invocation reads nothing of the second: the engine is given its
\* own staging directory to scan, and no file it hashes is in that of the
\* second.
ReadsNothingOfPeer ==
    /\ pc = "wait" => scanDir = TempDir
    /\ (pc = "hash" /\ PeerAlive) =>
          \A i \in DOMAIN threats :
              LET p == Join(TempDir, threats[i].file)
              IN  p # peer.dir /\ ~Under(p, peer.dir)

\* A step of the second invocation leaves the staging directory of the
\* first, its upload and all its variables as they are; a step of the first
\* leaves the staging directory and the state of the second as they are.
StepsKeepApart ==
    /\ (peer' # peer /\ OwnAlive) =>
          /\ TreeAt(fs', TempDir) = TreeAt(fs, TempDir)
          /\ TreeAt(fs', UploadPath) = TreeAt(fs, UploadPath)
          /\ UNCHANGED ownVars
    /\ (ownVars' # ownVars /\ PeerAlive) =>
          /\ TreeAt(fs', peer.dir) = TreeAt(fs, peer.dir)
          /\ peer' = peer

StagingOrStart == {"start", "open", "extract", "copy", "scan"}
FromEngineCall == {"wait", "hash", "ret", "returned", "responded"}

\* runClamAV has failed: the engine call timed out or ended in an error.
EngineCallFailed == err \in {"ScanTimeout", "EngineError"}

\* C19: an invocation starts the engine at most once and, once it has got
\* as far as the engine call, never goes back to staging or to starting the
\* engine; after a timed-out or failed engine call nothing is staged, no
\* engine is started and no result is produced any more, and ScanFile
\* returns that error.
C19_NothingRetried ==
    [][ /\ engineRuns' <= 1
        /\ pc \in FromEngineCall => pc' \notin StagingOrStart
        /\ pc = "scan" => pc' = "wait"
        /\ (pc = "wait" /\ EngineCallFailed') => pc' = "ret" /\ result' = <<>>
        /\ EngineCallFailed =>
              /\ err' = err /\ result' = <<>>
              /\ pc' \in {"returned", "responded"}
              /\ UNCHANGED << stagingVars, engineVars >>
              /\ StagedPaths' \subseteq StagedPaths ]_vars

\* The engine was started once and timed out, and the request was answered
\* with the failure.
C19_Witness ==
    /\ pc = "responded" /\ err = "ScanTimeout" /\ engineRuns = 1
    /\ result = <<>> /\ response[1].status = "error"

\* The step of ScanFile a position belongs to, in the order of the steps:
\* Received, Staging, Scanning (with Parsing at its end), Hashing, Done.
StepOf(p) ==
    CASE p \in {"request", "start"} -> 1
      [] p \in {"open", "extract", "copy"} -> 2
      [] p \in {"scan", "wait"} -> 3
      [] p = "hash" -> 4
      [] p \in {"ret", "returned", "responded"} -> 5

\* Staging has succeeded: the archive was extracted, or the upload was
\* copied into the staging directory after the extraction failed.
StagingSucceeded ==
    \/ extractErr = "none"
    \/ /\ extractErr \notin {"pending", "none"}
       /\ fileCount = 1
       /\ SingleFileDest(TempDir) \in DOMAIN fs

\* Some threat carries a hash.
SomeHash(ts) == \E i \in DOMAIN ts : ts[i].hash # <<>>

\* C20: the steps of an invocation run in the order Received, Staging,
\* Scanning, Parsing, Hashing, Done and none is gone back to; the engine is
\* started only after staging has succeeded; threats are parsed only from
\* the output of an engine call that has finished, and get their hashes only
\* in the hashing step, with the staging directory still there; once
\* staging, the engine call or the timeout check has failed, the error
\* stays, nothing is staged, started, parsed or hashed any more and no
\* ScanResult is returned.
C20_StepsInOrder ==
    [][ /\ StepOf(pc') >= StepOf(pc)
        /\ (pc # "scan" /\ pc' = "scan") => StagingSucceeded' /\ proc = "none"
        /\ proc' # proc => pc = "scan" \/ pc = "wait"
        /\ (pc = "scan" \/ pc = "wait") => StagingSucceeded /\ TempDir \in DOMAIN fs
        /\ threats' # threats =>
              \/ pc = "wait" /\ proc \in {"exited", "failed"} /\ ~SomeHash(threats')
              \/ pc = "hash" /\ proc = "exited" /\ TempDir \in DOMAIN fs
        /\ pc = "hash" => proc = "exited" /\ TempDir \in DOMAIN fs /\ err = "none"
        /\ result' # result => pc = "hash"
        /\ err # "none" =>
              /\ err' = err /\ result' = <<>> /\ StepOf(pc') = 5
              /\ UNCHANGED << stagingVars, engineVars, threats >>
              /\ StagedPaths' \subseteq StagedPaths ]_vars

\* An archive went through every step: extracted, scanned, a threat parsed
\* and hashed, the result returned and answered.
C20_Witness ==
    /\ pc = "responded" /\ err = "none" /\ extractErr = "none"
    /\ nEntries >= 1 /\ engineRuns = 1 /\ proc = "exited"
    /\ SomeHash(response[1].threats)

\* ScanFile has returned with a ScanResult or with an error, not with both.
ReturnedWithOutcome ==
    /\ pc = "returned"
    /\ \/ err = "none" /\ Len(result) = 1
       \/ err # "none" /\ result = <<>>

\* C21: every ScanFile invocation returns in the end, with a ScanResult or
\* with an error, also when the engine never ends on its own; the one step
\* that waits, the engine call, ends at the latest when ScanTimeout has gone
\* by.
C21_ScanFileReturns ==
    /\ (pc = "start") ~> ReturnedWithOutcome
    /\ (pc = "wait" /\ ctxErr = "DeadlineExceeded") ~> (pc = "returned")
    /\ [][pc = "wait" /\ pc' = "wait" /\ ctxErr # "none" => ctxErr' = ctxErr]_vars

\* An engine that had not ended when the deadline went by, and ScanFile has
\* returned the timeout error.
C21_Witness ==
    /\ pc = "returned" /\ cutOff /\ engineRuns = 1
    /\ err = "ScanTimeout" /\ result = <<>>

\* The first of the three tests that the next entry of the archive fails, in
\* the order the claim gives them: "none" when it passes all three.
FirstFailedCheck ==
    LET file == Head(rest)
    IN  IF fileCount + 1 > MaxFileCount THEN "TooManyEntries"
        ELSE IF file.declared > MaxSingleFileSize THEN "FileTooLarge"
        ELSE IF totalSize + file.declared > MaxExtractedSize THEN "ArchiveTooLarge"
        ELSE "none"

\* C22: for each entry extractZipSafe tests the entry count, the declared
\* size of the entry and the declared running total, in that order, before
\* it creates anything for the entry: when the entry fails a test,
\* extraction ends with the error of the first test it fails, the
\* filesystem is as it was before the entry, and no later entry is visited;
\* whatever is created, is created for an entry that passed all three.
C22_ChecksBeforeWrite ==
    [][ /\ pc = "extract" =>
              /\ extractErr = "pending" /\ rest # <<>>
              /\ fileCount' = fileCount + 1
              /\ FirstFailedCheck # "none" =>
                    /\ extractErr' = FirstFailedCheck
                    /\ fs' = fs /\ written' = written
                    /\ rest' = <<>> /\ pc' # "extract"
              /\ (fs' # fs \/ written' # written) => FirstFailedCheck = "none"
        /\ extractErr \in PolicyViolations =>
              /\ pc' # "extract" /\ extractErr' = extractErr
              /\ fileCount' = fileCount \/ pc = "copy"
              /\ \A p \in DOMAIN fs' \ DOMAIN fs : p = SingleFileDest(TempDir) ]_vars

\* The second entry of an archive failed the total test after the first had
\* been extracted.
C22_Witness ==
    /\ extractErr = "ArchiveTooLarge" /\ fileCount = 2 /\ written = 1
    /\ Cardinality(StagedFiles) = 1

\* The directories below the staging directory.
StagedDirs == { p \in StagedPaths : fs[p].kind = "dir" }

BareRoot(root) ==
    IF Len(root) > 1 /\ root[Len(root)] = Sep
    THEN SubSeq(root, 1, Len(root) - 1) ELSE root

\* What follows the root and one separator in a path that begins with them.
RelOf(path, root) == SubSeq(path, Len(root) + 2, Len(path))

\* C24 as stated: for a line whose path is root, separator, rel, the file of
\* the Threat is rel, both when the parser is given the root and when it is
\* given the root with a separator at its end.
C24_OneSeparatorStripped ==
    pc = "parsed" =>
        /\ Len(threats) = Len(ThreatLines)
        /\ \A k \in DOMAIN threats :
              LET path == PathOfLine(ThreatLines[k])
                  root == BareRoot(scanDir)
              IN  HasPrefix(path, root \o <<Sep>>)
                      => threats[k].file = RelOf(path, root)

\* C24, amended: the same for a rel that does not itself begin with a
\* separator.
C24_OneSeparatorStrippedPlainRel ==
    pc = "parsed" =>
        /\ Len(threats) = Len(ThreatLines)
        /\ \A k \in DOMAIN threats :
              LET path == PathOfLine(ThreatLines[k])
                  root == BareRoot(scanDir)
              IN  (/\ HasPrefix(path, root \o <<Sep>>)
                   /\ ~HasPrefix(RelOf(path, root), <<Sep>>))
                      => threats[k].file = RelOf(path, root)

\* A detection of root/x was parsed with the root given with a separator at
\* its end.
C24_Witness ==
    /\ pc = "parsed" /\ scanDir = <<"/", "r", "/">>
    /\ Len(threats) = 1 /\ threats[1].file = <<"x">>
    /\ PathOfLine(ThreatLines[1]) = <<"/", "r", "/", "x">>

\* ScanFile took the single-file fallback and handed the staging directory
\* to the engine.
FallbackScanned ==
    /\ pc \in {"scan", "wait", "hash"}
    /\ extractErr \notin {"pending", "none"}

\* C25: whenever ScanFile has taken the single-file fallback, the staging
\* directory it hands to the engine holds exactly one regular file, the copy
\* named "file", and nothing the failed extraction wrote, so that the
\* ScannedFiles of 1 is the number of files the engine scans.
C25_FallbackStagesOneFile ==
    FallbackScanned =>
        /\ fileCount = 1
        /\ StagedFiles = { SingleFileDest(TempDir) }
        /\ written = 0

\* runClamAV has returned from an engine run that ended on its own with exit
\* code 0 or 1.
FinishedOnItsOwn ==
    /\ pc \in {"hash", "ret", "returned", "responded"}
    /\ proc = "exited" /\ ~cutOff /\ exitCode \in {0, 1}

\* C26: ScanFile fails with ScanTimeout only when the deadline cut the
\* engine run off; a run that ended on its own with exit code 0 or 1 is not
\* reported as timed out and its detections are kept, however the end of the
\* engine and the deadline fall in time.
C26_TimeoutOnlyWhenCutOff ==
    /\ err = "ScanTimeout" => cutOff
    /\ FinishedOnItsOwn =>
          /\ err = "none"
          /\ Unhashed(threats) = parseClamAVOutput(output, scanDir)

=============================================================================
